---- MODULE Spec2Model ----
(***************************************************************************)
(* Model of fa_seq_compressibility (src/src/main.rs): a FASTA file is read *)
(* line by line, each chromosome's residues are buffered in `seq`, a       *)
(* window of `seqlen` residues is cut from the front of the buffer, gzip   *)
(* compressed to obtain a compressibility ratio, and a BED-like record is  *)
(* written to the output.                                                  *)
(*                                                                         *)
(* Strings are sequences of one-character strings.  The input alphabet is  *)
(* ASCII (FASTA residues and names), for which a byte index and a char     *)
(* index into a String coincide.                                           *)
(***************************************************************************)
EXTENDS Integers, Sequences, FiniteSets, TLC

(***************************************************************************)
(* Bounds of the model.                                                    *)
(***************************************************************************)
\* number of input lines the reader hands out before end of input
MaxLines == 4

(***************************************************************************)
(* Program constants.                                                      *)
(***************************************************************************)
\* the 10 subtracted from gzlen: size of the gzip member header
Overhead == 10
\* gzip member header written by flate2 (no name, no comment, no extra)
GzHeaderLen == 10
\* gzip member footer: CRC32 and ISIZE
GzFooterLen == 8

(***************************************************************************)
(* Inputs.                                                                 *)
(***************************************************************************)
\* Option<T>: None is <<>>, Some(x) is <<x>>
None == <<>>
Some(x) == <<x>>

\* values of --seqlen on the command line (absent, unparsable, and numbers)
SeqlenOpts ==
  { None, Some(<<"x">>), Some(<<"0">>), Some(<<"2">>), Some(<<"3">>),
    Some(<<"1", "0">>), Some(<<"1", "4">>) }

\* values of --outFile, split at '.'
OutFileOpts == { None, Some(<<"out", "bed">>), Some(<<"out", "GZ">>) }

\* lines the input file can hold: the empty line, two headers, and sequence
\* lines of 1, 2, 5 and 14 residues in mixed case
Lines ==
  { <<>>,
    <<">", "c">>,
    <<">", "D">>,
    <<"a">>,
    <<"A", "c">>,
    <<"a", "c", "g", "t", "a">>,
    <<"A", "C", "G", "T", "T", "g", "c", "a", "A", "G", "T", "C", "C", "A">> }

(***************************************************************************)
(* Pure helpers.                                                           *)
(***************************************************************************)
Min(a, b) == IF a <= b THEN a ELSE b

\* char::to_uppercase on the ASCII alphabet
ToUpperChar(c) ==
  CASE c = "a" -> "A"
    [] c = "c" -> "C"
    [] c = "g" -> "G"
    [] c = "t" -> "T"
    [] c = "d" -> "D"
    [] OTHER -> c

\* str::to_lowercase on the file extensions of the model
ExtLower(e) ==
  CASE e = "GZ" -> "gz"
    [] e = "BED" -> "bed"
    [] OTHER -> e

\* variant of to_uppercase that leaves the line as it is
to_uppercase_missing(l) == l

\* str::to_uppercase
to_uppercase(l) == [k \in 1..Len(l) |-> ToUpperChar(l[k])]

\* value of one decimal digit, -1 for any other character
DigitVal(c) ==
  CASE c = "0" -> 0 [] c = "1" -> 1 [] c = "2" -> 2 [] c = "3" -> 3
    [] c = "4" -> 4 [] c = "5" -> 5 [] c = "6" -> 6 [] c = "7" -> 7
    [] c = "8" -> 8 [] c = "9" -> 9 [] OTHER -> -1

RECURSIVE DigitsValue(_)
DigitsValue(s) ==
  IF s = <<>> THEN 0
  ELSE 10 * DigitsValue(SubSeq(s, 1, Len(s) - 1)) + DigitVal(s[Len(s)])

\* s.parse::<u32>(): Ok(l) is Some(l), Err(e) is None.  The arguments of the
\* model have at most two digits, so the PosOverflow error does not arise.
ParseU32(s) ==
  IF s = <<>> \/ \E k \in 1..Len(s) : DigitVal(s[k]) < 0
  THEN None
  ELSE Some(DigitsValue(s))

\* gzout: the lowercased last '.'-separated part of --outFile is "gz"
GzOut(outfile) ==
  IF outfile = None THEN FALSE
  ELSE ExtLower(outfile[1][Len(outfile[1])]) = "gz"

(***************************************************************************)
(* Compression of a window (flate2 read::GzEncoder, Compression::best()).  *)
(***************************************************************************)
\* Byte length of the DEFLATE stream of text s: one fixed-Huffman block of
\* literals, 3 header bits, 8 bits per ASCII literal, 7 end-of-block bits.
\* This is what zlib emits for the texts of the model that hold no repeated
\* run of three residues ("A" -> 3 bytes, "ACGTA" -> 7 bytes).
DeflateLen(s) == (3 + 8 * Len(s) + 7 + 7) \div 8

\* Size of the complete gzip member of text s: header, DEFLATE stream, footer.
GzFullLen(s) == GzHeaderLen + DeflateLen(s) + GzFooterLen

\* gz.read(&mut _buf): ONE read call into a buffer of buflen bytes.  The
\* encoder first copies the header; when that fills the buffer it returns,
\* otherwise it reads the DEFLATE stream into the rest of the buffer and
\* returns.  The footer is only produced by a later read call.
GzRead(s, buflen) ==
  IF buflen <= GzHeaderLen
  THEN buflen
  ELSE GzHeaderLen + Min(DeflateLen(s), buflen - GzHeaderLen)

\* (gzlen - 10) in usize overflows
SubOverflows(gzlen) == gzlen < Overhead

\* seq.as_bytes().len() as f32 / (gzlen - 10) as f32, kept as its operands.
\* den is gzlen - 10; when wrapped, the usize value divided by is 2^64 + den.
\* A zero den gives the f32 value inf.
Ratio(seq, gzlen) ==
  [num |-> Len(seq), den |-> gzlen - Overhead, wrapped |-> SubOverflows(gzlen)]

(***************************************************************************)
(* Windowing helpers.                                                      *)
(***************************************************************************)
\* variant of Classify that takes an empty line for a sequence line
ClassifyLenient(l) ==
  IF Len(l) >= 1 /\ l[1] = ">" THEN "header" ELSE "sequence"

\* &l[..1] and the match on it: an empty line has no byte range ..1
Classify(l) ==
  IF Len(l) < 1 THEN "panic"
  ELSE IF l[1] = ">" THEN "header"
  ELSE "sequence"

\* &seq[..seqlen as usize]
Window(s, n) == SubSeq(s, 1, n)

\* variant of SkipChars that drops one residue too many
SkipCharsOneMore(s, n) == SubSeq(s, n + 2, Len(s))

\* seq.chars().skip(seqlen as usize).collect()
SkipChars(s, n) == SubSeq(s, n + 1, Len(s))

\* i * seqlen and (i + 1) * seqlen in u32; the products of the model stay
\* far below 2^32
Start(idx, n) == idx * n
End(idx, n) == (idx + 1) * n

\* variant of NextIndex that leaves the index where it is
NextIndexStuck(idx) == idx

\* i += 1
NextIndex(idx) == idx + 1

\* the formatted line "{chr}\t{start}\t{end}\t{s}\t{r}\t+\n", and its framing:
\* written as is, or wrapped in a gzip container of its own
Record(c, idx, n, s, r, gz) ==
  [chr |-> c, start |-> Start(idx, n), end |-> End(idx, n), s |-> s, r |-> r,
   strand |-> "+", gz |-> gz]

(***************************************************************************)
(* State.                                                                  *)
(***************************************************************************)
VARIABLES
  pc,               \* "args", "loop", "done", "panicked"
  err,              \* what the process died of, "none" while it lives
  overflow_checks,  \* build profile: TRUE panics on integer overflow (debug),
                    \* FALSE wraps (release)
  seqlen,           \* params.seqlen, also the size of _buf
  gzout,            \* params.gzout
  chr,              \* name of the current chromosome
  seq,              \* residue buffer
  i,                \* window index
  out,              \* records written to outfh, in order
  lines,            \* history: the lines handed out by infh.lines() so far
  epoch,            \* history: number of header lines processed
  streams,          \* history: uppercased residues of each chromosome so far,
                    \* streams[e + 1] for the chromosome of epoch e
  ended,            \* history: how each closed chromosome ended
  meta              \* history: one entry per record of out

vars == <<pc, err, overflow_checks, seqlen, gzout, chr, seq, i, out, lines,
          epoch, streams, ended, meta>>

\* number of lines read
nread == Len(lines)

config == <<overflow_checks, seqlen, gzout>>
history == <<epoch, streams, ended, meta>>

Init ==
  /\ pc = "args"
  /\ err = "none"
  /\ overflow_checks \in BOOLEAN
  /\ seqlen = 0
  /\ gzout = FALSE
  /\ chr = <<>>
  /\ seq = <<>>
  /\ i = 0
  /\ out = <<>>
  /\ lines = <<>>
  /\ epoch = 0
  /\ streams = << <<>> >>
  /\ ended = <<>>
  /\ meta = <<>>

\* history entry of a record: the chromosome it belongs to, the index it was
\* given, which match arm wrote it, the line that produced it, the buffer
\* length when it was cut, and the read and complete compressed lengths
Meta(via, buf, s, gzlen) ==
  [epoch |-> epoch, idx |-> i, via |-> via, line |-> nread + 1,
   buflen |-> Len(buf), gzlen |-> gzlen, full |-> GzFullLen(s)]

(***************************************************************************)
(* proc_args: --seqlen and --outFile.                                      *)
(***************************************************************************)
ProcArgs ==
  /\ pc = "args"
  /\ \E lopt \in SeqlenOpts, oopt \in OutFileOpts :
       IF lopt = None \/ ParseU32(lopt[1]) = None
       THEN /\ pc' = "panicked"
            /\ err' = "seqlen"
            /\ UNCHANGED <<seqlen, gzout>>
       ELSE /\ pc' = "loop"
            /\ seqlen' = ParseU32(lopt[1])[1]
            /\ gzout' = GzOut(oopt)
            /\ err' = err
  /\ UNCHANGED <<overflow_checks, chr, seq, i, out, lines, history>>

(***************************************************************************)
(* The loop over infh.lines(): one action per match arm.                   *)
(***************************************************************************)
\* the process dies of a panic; nothing more is written
Panic(e) ==
  /\ pc' = "panicked"
  /\ err' = e

\* variant of Emit that puts the record in front of what was written before
EmitInFront(via, buf, s, gzlen) ==
  /\ out' = <<Record(chr, i, seqlen, s, Ratio(buf, gzlen), gzout)>> \o out
  /\ meta' = <<Meta(via, buf, s, gzlen)>> \o meta

\* the record is written to outfh
Emit(via, buf, s, gzlen) ==
  /\ out' = Append(out, Record(chr, i, seqlen, s, Ratio(buf, gzlen), gzout))
  /\ meta' = Append(meta, Meta(via, buf, s, gzlen))

\* the line was appended to the residue stream of the current chromosome
Streamed(u) ==
  streams' = [streams EXCEPT ![Len(streams)] = @ \o u]

\* variant of HeaderLine that does not clear the pending buffer
HeaderLineKeepsBuffer(l) ==
  /\ pc = "loop"
  /\ nread < MaxLines
  /\ Classify(l) = "header"
  /\ lines' = Append(lines, l)
  /\ IF seq # <<>> /\ SubOverflows(GzRead(seq, seqlen)) /\ overflow_checks
     THEN /\ Panic("sub_overflow")
          /\ UNCHANGED <<chr, seq, i, out, history>>
     ELSE /\ IF seq # <<>>
             THEN Emit("header", seq, seq, GzRead(seq, seqlen))
             ELSE UNCHANGED <<out, meta>>
          /\ seq' = seq
          /\ chr' = Tail(l)
          /\ i' = 0
          /\ epoch' = epoch + 1
          /\ streams' = Append(streams, <<>>)
          /\ ended' = Append(ended, "header")
          /\ UNCHANGED <<pc, err>>
  /\ UNCHANGED config

\* ">" arm: a pending buffer is compressed whole and written, then the
\* chromosome name is replaced and the window index reset
HeaderLine(l) ==
  /\ pc = "loop"
  /\ nread < MaxLines
  /\ Classify(l) = "header"
  /\ lines' = Append(lines, l)
  /\ IF seq # <<>> /\ SubOverflows(GzRead(seq, seqlen)) /\ overflow_checks
     THEN /\ Panic("sub_overflow")
          /\ UNCHANGED <<chr, seq, i, out, history>>
     ELSE /\ IF seq # <<>>
             THEN Emit("header", seq, seq, GzRead(seq, seqlen))
             ELSE UNCHANGED <<out, meta>>
          /\ seq' = <<>>
          /\ chr' = Tail(l)
          /\ i' = 0
          /\ epoch' = epoch + 1
          /\ streams' = Append(streams, <<>>)
          /\ ended' = Append(ended, "header")
          /\ UNCHANGED <<pc, err>>
  /\ UNCHANGED config

\* "_" arm: the uppercased line is appended to the buffer; if the buffer now
\* holds at least seqlen residues, ONE window is cut from its front
SequenceLine(l) ==
  /\ pc = "loop"
  /\ nread < MaxLines
  /\ Classify(l) = "sequence"
  /\ lines' = Append(lines, l)
  /\ LET buf == seq \o to_uppercase(l)
         s == Window(buf, seqlen)
         gzlen == GzRead(s, seqlen)
     IN  /\ Streamed(to_uppercase(l))
         /\ IF Len(buf) >= seqlen
            THEN IF SubOverflows(gzlen) /\ overflow_checks
                 THEN /\ Panic("sub_overflow")
                      /\ seq' = buf
                      /\ UNCHANGED <<i, out, meta>>
                 ELSE /\ Emit("line", buf, s, gzlen)
                      /\ seq' = SkipChars(buf, seqlen)
                      /\ i' = NextIndex(i)
                      /\ UNCHANGED <<pc, err>>
            ELSE /\ seq' = buf
                 /\ UNCHANGED <<pc, err, i, out, meta>>
  /\ UNCHANGED <<config, chr, epoch, ended>>

\* &l[..1] of a line of zero characters: the slice index panics
EmptyLine(l) ==
  /\ pc = "loop"
  /\ nread < MaxLines
  /\ Classify(l) = "panic"
  /\ lines' = Append(lines, l)
  /\ Panic("slice_index")
  /\ UNCHANGED <<config, chr, seq, i, out, history>>

\* infh.lines() is exhausted: "All done!"; the buffer is dropped
EndOfInput ==
  /\ pc = "loop"
  /\ pc' = "done"
  /\ ended' = Append(ended, "eof")
  /\ UNCHANGED <<err, config, chr, seq, i, out, lines, epoch, streams, meta>>

Next ==
  \/ ProcArgs
  \/ \E l \in Lines : HeaderLine(l)
  \/ \E l \in Lines : SequenceLine(l)
  \/ \E l \in Lines : EmptyLine(l)
  \/ EndOfInput

Spec == Init /\ [][Next]_vars

TypeOK ==
  /\ pc \in {"args", "loop", "done", "panicked"}
  /\ err \in {"none", "seqlen", "slice_index", "sub_overflow"}
  /\ overflow_checks \in BOOLEAN
  /\ seqlen \in Nat
  /\ gzout \in BOOLEAN
  /\ i \in Nat
  /\ nread \in 0..MaxLines
  /\ Len(meta) = Len(out)
  /\ Len(streams) = epoch + 1
  /\ (pc = "panicked") = (err # "none")

(***************************************************************************)
(* Properties.                                                             *)
(***************************************************************************)
Records == 1..Len(out)

\* records of the chromosome of epoch e
RecordsOf(e) == {k \in Records : meta[k].epoch = e}

\* C1: for window_length >= 1, every record written (by a sequence line or by
\* a header line) has a sequence_text of exactly window_length characters and
\* end - start = window_length.
C1_EveryRecordIsFullWindow ==
  seqlen >= 1 =>
    \A k \in Records :
      /\ Len(out[k].s) = seqlen
      /\ out[k].end - out[k].start = seqlen

\* C2: a chromosome with n residues in total, ended by a header line or by
\* end of input, has exactly floor(n / window_length) records, however its
\* residues were split into lines.
C2_FloorOfResiduesRecords ==
  seqlen >= 1 =>
    \A e \in 1..Len(ended) :
      Cardinality(RecordsOf(e - 1)) = Len(streams[e]) \div seqlen

\* C3: once a sequence line has been fully processed, the residue buffer
\* holds strictly fewer than window_length characters.
C3_BufferBelowWindowLength ==
  (pc = "loop" /\ seqlen >= 1) => Len(seq) < seqlen

\* C4: each record's sequence_text is the residues at positions
\* [start, start + length(sequence_text)) of its chromosome's uppercased
\* residue stream, with start = window_index * window_length; the first record
\* of a chromosome starts at 0 and each next one starts where the one before
\* it ended, so no residue is duplicated or skipped between windows.
C4_RecordsAreContiguousSlices ==
  \A k \in Records :
    LET r == out[k]
        m == meta[k]
        st == streams[m.epoch + 1]
    IN  /\ r.start = m.idx * seqlen
        /\ r.start + Len(r.s) <= Len(st)
        /\ r.s = SubSeq(st, r.start + 1, r.start + Len(r.s))
        /\ IF k > 1 /\ meta[k - 1].epoch = m.epoch
           THEN r.start = out[k - 1].start + Len(out[k - 1].s)
           ELSE r.start = 0

\* C4 witness: a chromosome has two records, the second of non-empty text
\* cut from further down the stream, and the buffer still holds residues.
C4_Witness ==
  \E k \in Records :
    /\ k > 1
    /\ meta[k - 1].epoch = meta[k].epoch
    /\ out[k].start > 0
    /\ Len(out[k].s) > 0
    /\ seq # <<>>

\* C5: within a chromosome the window indices of the records, in emission
\* order, are 0, 1, 2, ...; every header line resets the index, so the first
\* record of every chromosome has start = 0 and end = window_length.
C5_IndicesCountFromZero ==
  /\ \A k \in Records :
       LET before == Cardinality({j \in RecordsOf(meta[k].epoch) : j < k})
       IN  /\ meta[k].idx = before
           /\ out[k].start = before * seqlen
           /\ out[k].end = (before + 1) * seqlen
  /\ i = Cardinality(RecordsOf(epoch))

\* C5 witness: a later chromosome has a record after an earlier chromosome
\* got a record of index 1 or more, and the later chromosome has a second one.
C5_Witness ==
  \E j, k \in Records :
    /\ meta[j].epoch < meta[k].epoch
    /\ meta[j].idx >= 1
    /\ meta[k].idx >= 1
    /\ seqlen >= 1

\* C6: the numerator of the ratio of every record is window_length.
C6_NumeratorIsWindowLength ==
  \A k \in Records : out[k].r.num = seqlen

\* C7: the compressed length used in the ratio is the byte length of the
\* complete compressor output for the record's text.
C7_MeasuredLengthIsComplete ==
  \A k \in Records :
    /\ meta[k].gzlen = meta[k].full
    /\ out[k].r.den + Overhead = meta[k].full

\* C8: no record is written whose ratio was computed from a wrapped, negative
\* or zero denominator.
C8_NoRecordFromBadDenominator ==
  \A k \in Records :
    /\ ~out[k].r.wrapped
    /\ out[k].r.den > 0

\* C9: with window_length = 0 no line is read, no record is written and the
\* loop is never entered.
C9_ZeroWindowLengthRejected ==
  (pc \in {"loop", "done"} \/ lines # <<>> \/ out # <<>>) => seqlen >= 1

IsPrefix(o, p) == Len(o) <= Len(p) /\ SubSeq(p, 1, Len(o)) = o

\* C11: records are in the order their windows are discovered: chromosomes in
\* header order, increasing window index within a chromosome, one record per
\* window; the records a line produces are written by the step that reads the
\* line, behind everything written before, and no other step writes.
C11_RecordsInDiscoveryOrder ==
  /\ [](\A j, k \in Records :
          j < k =>
            /\ meta[j].epoch <= meta[k].epoch
            /\ meta[j].line <= meta[k].line
            /\ meta[j].epoch = meta[k].epoch => meta[j].idx < meta[k].idx)
  /\ [][/\ IsPrefix(out, out')
        /\ \A k \in (Len(out) + 1)..Len(out') :
             lines' # lines /\ meta'[k].line = Len(lines')
        /\ \A k \in Records : meta'[k] = meta[k]]_vars

\* C11 witness: three records, of two chromosomes, two of them of the same
\* chromosome, written by three different lines.
C11_Witness ==
  \E j, k, m \in Records :
    /\ j < k /\ k < m
    /\ meta[j].epoch = meta[k].epoch
    /\ meta[k].epoch < meta[m].epoch
    /\ meta[j].line < meta[k].line

(***************************************************************************)
(* The loop as a function of the input: the state after a list of lines.   *)
(***************************************************************************)
\* state of the loop before the first line: chr, seq, i as main declares them
LoopStart ==
  [pc |-> "loop", err |-> "none", chr |-> <<>>, seq |-> <<>>, i |-> 0,
   out |-> <<>>]

\* one iteration of `for line in infh.lines()` on line l, for window length
\* n, output framing gz and build profile oc
FeedLine(st, l, n, gz, oc) ==
  IF st.pc # "loop" THEN st
  ELSE IF Classify(l) = "panic"
  THEN [st EXCEPT !.pc = "panicked", !.err = "slice_index"]
  ELSE IF Classify(l) = "header"
  THEN IF st.seq = <<>>
       THEN [st EXCEPT !.chr = Tail(l), !.i = 0]
       ELSE IF SubOverflows(GzRead(st.seq, n)) /\ oc
       THEN [st EXCEPT !.pc = "panicked", !.err = "sub_overflow"]
       ELSE [st EXCEPT
               !.out = Append(@, Record(st.chr, st.i, n, st.seq,
                                        Ratio(st.seq, GzRead(st.seq, n)), gz)),
               !.seq = <<>>,
               !.chr = Tail(l),
               !.i = 0]
  ELSE LET buf == st.seq \o to_uppercase(l)
           s == Window(buf, n)
           gzlen == GzRead(s, n)
       IN  IF Len(buf) < n
           THEN [st EXCEPT !.seq = buf]
           ELSE IF SubOverflows(gzlen) /\ oc
           THEN [st EXCEPT !.pc = "panicked", !.err = "sub_overflow",
                           !.seq = buf]
           ELSE [st EXCEPT
                   !.out = Append(@, Record(st.chr, st.i, n, s,
                                            Ratio(buf, gzlen), gz)),
                   !.seq = SkipChars(buf, n),
                   !.i = NextIndex(st.i)]

\* the loop run over the lines ls
RECURSIVE RunOn(_, _, _, _)
RunOn(ls, n, gz, oc) ==
  IF ls = <<>> THEN LoopStart
  ELSE FeedLine(RunOn(SubSeq(ls, 1, Len(ls) - 1), n, gz, oc),
                ls[Len(ls)], n, gz, oc)

\* the program state is the loop function of the lines read so far
RunOnAgrees ==
  pc \in {"loop", "done"} \/ lines # <<>> =>
    LET st == RunOn(lines, seqlen, gzout, overflow_checks)
    IN  /\ st.out = out
        /\ st.chr = chr
        /\ st.seq = seq
        /\ st.i = i
        /\ st.err = err
        /\ st.pc = IF pc = "done" THEN "loop" ELSE pc

(***************************************************************************)
(* Bytes on the sink.  A formatted line is one token; a gzip container is  *)
(* a header token, the DEFLATE stream of the lines written into it, and a  *)
(* footer token holding the number of lines (ISIZE).                       *)
(***************************************************************************)
\* format!("{}\t{}\t{}\t{}\t{}\t{}\n", chr, i * seqlen, (i + 1) * seqlen, s, r, "+")
Line(rec) ==
  [chr |-> rec.chr, start |-> rec.start, end |-> rec.end, s |-> rec.s,
   r |-> rec.r, strand |-> rec.strand]

Token(kind, ls, n) == [t |-> kind, v |-> ls, n |-> n]

\* outfh.write(format!(...).as_bytes())
PlainBytes(line) == <<Token("text", <<line>>, 0)>>

\* variant of GzMember that is not finished: the footer is missing
GzMemberUnfinished(line) ==
  <<Token("hdr", <<>>, 0), Token("deflate", <<line>>, 0)>>

\* write::GzEncoder::new(Vec::new(), ..), write_all(line), finish()
GzMember(line) ==
  <<Token("hdr", <<>>, 0), Token("deflate", <<line>>, 0), Token("ftr", <<>>, 1)>>

\* what one write puts on the sink
Bytes(rec) == IF rec.gz THEN GzMember(Line(rec)) ELSE PlainBytes(Line(rec))

\* the bytes of the sink after the writes o
RECURSIVE SinkOf(_)
SinkOf(o) ==
  IF o = <<>> THEN <<>>
  ELSE SinkOf(SubSeq(o, 1, Len(o) - 1)) \o Bytes(o[Len(o)])

\* the lines of a plain sink
RECURSIVE PlainLines(_)
PlainLines(b) ==
  IF b = <<>> THEN <<>> ELSE b[1].v \o PlainLines(Tail(b))

\* gunzip of a sink of concatenated containers: every container must start
\* with a header and end with a footer whose count matches its lines.  The
\* result holds the decompressed lines and the number of containers.
RECURSIVE Gunzip(_, _, _, _)
Gunzip(b, inside, count, acc) ==
  IF b = <<>>
  THEN [ok |-> ~inside, lines |-> acc.lines, members |-> acc.members]
  ELSE IF ~inside
  THEN IF b[1].t = "hdr"
       THEN Gunzip(Tail(b), TRUE, 0, acc)
       ELSE [ok |-> FALSE, lines |-> acc.lines, members |-> acc.members]
  ELSE IF b[1].t = "deflate"
  THEN Gunzip(Tail(b), TRUE, count + Len(b[1].v),
              [acc EXCEPT !.lines = @ \o b[1].v])
  ELSE IF b[1].t = "ftr" /\ b[1].n = count
  THEN Gunzip(Tail(b), FALSE, 0, [acc EXCEPT !.members = @ + 1])
  ELSE [ok |-> FALSE, lines |-> acc.lines, members |-> acc.members]

Decompressed(b) == Gunzip(b, FALSE, 0, [lines |-> <<>>, members |-> 0])

\* C12: in compressed mode the sink holds one complete container per record,
\* and decompressing the concatenated containers gives exactly what plain
\* mode writes for the same lines, window length and build.
C12_GunzipGivesPlainOutput ==
  (gzout /\ (pc \in {"loop", "done"} \/ lines # <<>>)) =>
    LET plain == RunOn(lines, seqlen, FALSE, overflow_checks).out
        d == Decompressed(SinkOf(out))
    IN  /\ d.ok
        /\ d.members = Len(out)
        /\ d.lines = PlainLines(SinkOf(plain))

\* C12 witness: compressed mode has written two containers.
C12_Witness ==
  /\ gzout
  /\ Len(out) >= 2
  /\ Decompressed(SinkOf(out)).members >= 2
  /\ Len(SinkOf(out)) > Len(out)

(***************************************************************************)
(* Letter case.                                                            *)
(***************************************************************************)
LowerLetters == {"a", "c", "g", "t", "d"}

\* the letter in the other case
SwapCaseChar(c) ==
  CASE c = "a" -> "A" [] c = "A" -> "a"
    [] c = "c" -> "C" [] c = "C" -> "c"
    [] c = "g" -> "G" [] c = "G" -> "g"
    [] c = "t" -> "T" [] c = "T" -> "t"
    [] OTHER -> c

IsHeader(l) == Len(l) >= 1 /\ l[1] = ">"

\* an input that differs from ls only in the letter case of the characters
\* on its sequence lines
SwapCaseOfSequenceLines(ls) ==
  [k \in 1..Len(ls) |->
     IF IsHeader(ls[k]) THEN ls[k]
     ELSE [j \in 1..Len(ls[k]) |-> SwapCaseChar(ls[k][j])]]

\* name given by the header line that opened the chromosome of epoch e
NameOf(e) ==
  IF e = 0 THEN <<>> ELSE Tail(SelectSeq(lines, IsHeader)[e])

\* C13: the input with the case of every sequence-line character swapped
\* gives the same output; every sequence_text is uppercase; the chromosome
\* name is the header line's text after '>' as it stands.
C13_CaseOfResiduesIrrelevant ==
  (pc \in {"loop", "done"} \/ lines # <<>>) =>
    /\ out = RunOn(SwapCaseOfSequenceLines(lines), seqlen, gzout,
                   overflow_checks).out
    /\ \A k \in Records :
         /\ \A j \in 1..Len(out[k].s) : out[k].s[j] \notin LowerLetters
         /\ out[k].chr = NameOf(meta[k].epoch)

\* C13 witness: a record of chromosome "c" (a lowercase name) was cut by a
\* sequence line that holds lowercase residues.
C13_Witness ==
  \E k \in Records :
    /\ out[k].chr = <<"c">>
    /\ meta[k].via = "line"
    /\ \E j \in 1..Len(lines[meta[k].line]) :
         lines[meta[k].line][j] \in LowerLetters
    /\ out[k].s # <<>>

(***************************************************************************)
(* Chromosomes as the input defines them.                                  *)
(***************************************************************************)
\* number of header lines among the first k lines read
HeadersUpTo(k) == Len(SelectSeq(SubSeq(lines, 1, k), IsHeader))

\* uppercased residues of the sequence lines that follow the e-th header
\* line (e = 0: that precede every header), among the first k lines
RECURSIVE ResiduesOf(_, _)
ResiduesOf(e, k) ==
  IF k = 0 THEN <<>>
  ELSE IF ~IsHeader(lines[k]) /\ HeadersUpTo(k) = e
       THEN ResiduesOf(e, k - 1) \o to_uppercase(lines[k])
       ELSE ResiduesOf(e, k - 1)

\* t occurs in s at offset p
IsSliceAt(t, s, p) ==
  p + Len(t) <= Len(s) /\ SubSeq(s, p + 1, p + Len(t)) = t

\* t is the tail end of s
IsSuffix(t, s) == Len(t) <= Len(s) /\ IsSliceAt(t, s, Len(s) - Len(t))

\* C15: after a header line has been processed the buffer is empty; the
\* buffer holds only residues read after the most recent header line; every
\* record's text is a slice of the residues of one chromosome, the one whose
\* header name the record carries, and a header line only writes the record
\* of the chromosome it closes.
C15_ChromosomesNeverMixed ==
  /\ (pc = "loop" /\ lines # <<>> /\ IsHeader(lines[Len(lines)])) => seq = <<>>
  /\ pc \in {"loop", "done"} =>
       IsSuffix(seq, ResiduesOf(HeadersUpTo(Len(lines)), Len(lines)))
  /\ \A k \in Records :
       LET e == meta[k].epoch
       IN  /\ e = IF meta[k].via = "header"
                  THEN HeadersUpTo(meta[k].line) - 1
                  ELSE HeadersUpTo(meta[k].line)
           /\ out[k].chr = NameOf(e)
           /\ IsSliceAt(out[k].s, ResiduesOf(e, Len(lines)), out[k].start)

\* C15 witness: a header line closed a chromosome that had residues pending,
\* and the chromosome it opened got a record of its own.
C15_Witness ==
  \E j, k \in Records :
    /\ j < k
    /\ meta[j].via = "header"
    /\ meta[k].epoch = meta[j].epoch + 1
    /\ out[k].s # <<>>
    /\ out[j].chr # out[k].chr

\* C16: every record belongs to a chromosome opened by a header line that
\* precedes the record's residues, and carries that header's name; residues
\* read before the first header line give no record.
C16_NoRecordBeforeFirstHeader ==
  \A k \in Records :
    /\ meta[k].epoch >= 1
    /\ HeadersUpTo(meta[k].line - 1) >= 1
    /\ out[k].chr = NameOf(meta[k].epoch)

(***************************************************************************)
(* The loop at the scale of the u32 coordinates.                           *)
(*                                                                         *)
(* In SpecCoords lengths are counted in blocks of 2^30 residues: seqlen,   *)
(* the coordinates of a record, and every element of a sequence line and   *)
(* of seq stand for 2^30 residues.  A u32 holds 2^32 = 4 blocks.  The      *)
(* text of a block is not looked at, and the ratio is left out of the      *)
(* record: _buf is larger than 10 bytes, so gz.read returns more than the  *)
(* 10 header bytes and gzlen - 10 does not overflow.                       *)
(***************************************************************************)
\* number of blocks of 2^30 that make 2^32, the range of u32
WordBlocks == 4

\* --seqlen 1073741824, 2147483648, 3221225472, in blocks
CoordSeqlens == {1, 2, 3}

\* a header line, and sequence lines of 1, 2 and 4 blocks
CoordLines ==
  { <<">", "c">>,
    <<"N">>,
    <<"N", "N">>,
    <<"N", "N", "N", "N">> }

\* a * n in u32 overflows
MulOverflows(a, n) == a * n >= WordBlocks

\* a * n in u32 when overflow wraps
MulU32(a, n) == (a * n) % WordBlocks

\* the formatted line without its ratio, coordinates in u32
CoordRecord(c, idx, n, s, gz) ==
  [chr |-> c, start |-> MulU32(idx, n), end |-> MulU32(idx + 1, n), s |-> s,
   strand |-> "+", gz |-> gz]

\* i * seqlen or (i + 1) * seqlen overflows while the line is formatted
FormatOverflows(idx, n) == MulOverflows(idx, n) \/ MulOverflows(idx + 1, n)

CoordMeta(via) ==
  [epoch |-> epoch, idx |-> i, via |-> via, line |-> nread + 1]

CoordEmit(via, s) ==
  /\ out' = Append(out, CoordRecord(chr, i, seqlen, s, gzout))
  /\ meta' = Append(meta, CoordMeta(via))

\* state after proc_args with a window length of one to three blocks
InitCoords ==
  /\ pc = "loop"
  /\ err = "none"
  /\ overflow_checks \in BOOLEAN
  /\ seqlen \in CoordSeqlens
  /\ gzout \in BOOLEAN
  /\ chr = <<>>
  /\ seq = <<>>
  /\ i = 0
  /\ out = <<>>
  /\ lines = <<>>
  /\ epoch = 0
  /\ streams = << <<>> >>
  /\ ended = <<>>
  /\ meta = <<>>

\* ">" arm
CoordHeaderLine(l) ==
  /\ pc = "loop"
  /\ nread < MaxLines
  /\ Classify(l) = "header"
  /\ lines' = Append(lines, l)
  /\ IF seq # <<>> /\ FormatOverflows(i, seqlen) /\ overflow_checks
     THEN /\ Panic("mul_overflow")
          /\ UNCHANGED <<chr, seq, i, out, history>>
     ELSE /\ IF seq # <<>>
             THEN CoordEmit("header", seq)
             ELSE UNCHANGED <<out, meta>>
          /\ seq' = <<>>
          /\ chr' = Tail(l)
          /\ i' = 0
          /\ epoch' = epoch + 1
          /\ streams' = Append(streams, <<>>)
          /\ ended' = Append(ended, "header")
          /\ UNCHANGED <<pc, err>>
  /\ UNCHANGED config

\* "_" arm
CoordSequenceLine(l) ==
  /\ pc = "loop"
  /\ nread < MaxLines
  /\ Classify(l) = "sequence"
  /\ lines' = Append(lines, l)
  /\ LET buf == seq \o to_uppercase(l)
     IN  /\ Streamed(to_uppercase(l))
         /\ IF Len(buf) >= seqlen
            THEN IF FormatOverflows(i, seqlen) /\ overflow_checks
                 THEN /\ Panic("mul_overflow")
                      /\ seq' = buf
                      /\ UNCHANGED <<i, out, meta>>
                 ELSE /\ CoordEmit("line", Window(buf, seqlen))
                      /\ seq' = SkipChars(buf, seqlen)
                      /\ i' = NextIndex(i)
                      /\ UNCHANGED <<pc, err>>
            ELSE /\ seq' = buf
                 /\ UNCHANGED <<pc, err, i, out, meta>>
  /\ UNCHANGED <<config, chr, epoch, ended>>

NextCoords ==
  \/ \E l \in CoordLines : CoordHeaderLine(l)
  \/ \E l \in CoordLines : CoordSequenceLine(l)
  \/ EndOfInput

SpecCoords == InitCoords /\ [][NextCoords]_vars

\* C17: the process never dies of a coordinate overflow, and the start and
\* end of every record are the true products window_index * window_length
\* and (window_index + 1) * window_length.
C17_CoordinatesAreTrueProducts ==
  /\ err # "mul_overflow"
  /\ \A k \in Records :
       /\ out[k].start = meta[k].idx * seqlen
       /\ out[k].end = (meta[k].idx + 1) * seqlen

====
